---- MODULE Spec2Model ----
(***************************************************************************)
(* Model of the OpenPGP cleartext-signed-message module (cleartext.js:     *)
(* CleartextMessage, sign/signDetached, verify/verifyDetached, getText,    *)
(* armor, readArmored, verifyHeaders), of the signature dispatch of        *)
(* crypto/signature (sign, verify) and of the radix-64 codec (s2r, r2s).   *)
(*                                                                         *)
(* Strings are sequences of one-character strings.  Armor header lines    *)
(* are sequences of lexical chunks ("Hash", ":", " ", "SHA256", ...); the  *)
(* chunks are chosen so that the text "Hash: " can only arise from the     *)
(* three chunks "Hash", ":", " " in a row and no two chunks concatenate to *)
(* a hash algorithm name.                                                  *)
(***************************************************************************)
EXTENDS Integers, Sequences, FiniteSets, TLC

VARIABLES
  pc,          \* what the caller does next: "callNew", "callReadArmored", "created", "readFailed"
  rawText,     \* the text argument of the CleartextMessage constructor
  armorIn,     \* the result of armor.decode(armoredText): type, headers, data, text
  keys,        \* the key array handed to sign / verify
  self,        \* the message made by the constructor or by readArmored (NoMsg: none)
  readErr,     \* the error thrown by readArmored ("none": no error)
  armorOut,    \* the body armor() handed to armor.encode (NoBody: armor not called)
  plainText,   \* the text getText() returned (NoText: getText not called)
  copyMsg,     \* the message constructed from that text (NoMsg: none)
  signPc,      \* the promise returned by sign: "idle", "pending", "resolved", "rejected"
  signThis0,   \* the receiver of sign as it was when sign was called
  signTasks,   \* per key: "awaitVerifyPrimaryUser", "awaitSign", "fulfilled", "rejected"
  signValues,  \* per key: the signature packet the key's async function returned
  signOrder,   \* key indices in the order in which their async functions settled
  signErr,     \* the error sign rejected with
  signRet,     \* the message sign resolved with (NoMsg: none)
  verifyPc,    \* the promise returned by verify: "idle", "pending", "resolved", "rejected"
  verifyOn,    \* which message verify was called on: "self" or "ret"
  keyTasks,    \* per signature, per key: "awaitVerifyPrimaryUser", "done", "rejected"
  keyPacket,   \* per signature: the closure variable keyPacket
  sigTasks,    \* per signature: "awaitKeys", "awaitVerify", "fulfilled", "rejected"
  sigValues,   \* per signature: the verifiedSig object the signature's async function returned
  sigOrder,    \* signature indices in the order in which their async functions settled
  verifyErr,   \* the error verify rejected with
  verifyRet,   \* the list verify resolved with
  codecPc,     \* radix-64 codec: "encode", "decode", "done", "altered"
  codecT,      \* the byte array handed to s2r
  codecU,      \* the url-safe flag
  codecR,      \* the string returned by s2r
  codecBack,   \* the byte array returned by r2s
  codecAlt,    \* the string returned by s2r, altered
  codecAltBack, \* the byte array returned by r2s for the altered string
  engPc,       \* crypto/signature: "off", "sign", "verify", "done"
  engAlgo,     \* the public key algorithm id
  engHash,     \* the hash algorithm id
  engKey,      \* the key material
  engData,     \* the data signed
  engSigned,   \* what sign gave
  engMsg,      \* the signature bytes handed on to verify
  engVerified  \* what verify gave

msgVars   == <<pc, rawText, armorIn, keys, self, readErr, armorOut, plainText, copyMsg>>
signVars  == <<signPc, signThis0, signTasks, signValues, signOrder, signErr, signRet>>
verVars   == <<verifyPc, verifyOn, keyTasks, keyPacket, sigTasks, sigValues, sigOrder,
               verifyErr, verifyRet>>
codecVars == <<codecPc, codecT, codecU, codecR, codecBack, codecAlt, codecAltBack>>
engVars   == <<engPc, engAlgo, engHash, engKey, engData, engSigned, engMsg, engVerified>>
vars      == <<msgVars, signVars, verVars, codecVars, engVars>>

-----------------------------------------------------------------------------
(* Generic helpers *)

SeqsUpTo(S, n) == UNION {[1..k -> S] : k \in 0..n}

RECURSIVE Flatten(_)
Flatten(ss) == IF ss = <<>> THEN <<>> ELSE Head(ss) \o Flatten(Tail(ss))

Range(s) == {s[i] : i \in DOMAIN s}

-----------------------------------------------------------------------------
(* Characters and the constructor's text normalisation *)

CR  == "\r"
LF  == "\n"
SP  == " "
TAB == "\t"

\* text.replace(/\r/g, '')
StripCR(text) == SelectSeq(text, LAMBDA c : c # CR)

\* The length of the run of [\t ] characters that starts at position i.
RECURSIVE WsRun(_, _)
WsRun(text, i) ==
  IF i <= Len(text) /\ text[i] \in {TAB, SP} THEN 1 + WsRun(text, i + 1) ELSE 0

\* text.replace(/[\t ]+\n/g, "\n"): scanning from position i, a maximal run of
\* tabs and spaces that is followed by a line feed is replaced, with the line
\* feed, by a line feed; anything else is copied.
RECURSIVE StripTrailingWs(_, _)
StripTrailingWs(text, i) ==
  IF i > Len(text) THEN <<>>
  ELSE LET n == WsRun(text, i) IN
       IF n > 0 /\ i + n <= Len(text) /\ text[i + n] = LF
       THEN <<LF>> \o StripTrailingWs(text, i + n + 1)
       ELSE <<text[i]>> \o StripTrailingWs(text, i + 1)

\* text.replace(/\n/g, "\r\n")
LFtoCRLF(text) == Flatten([i \in 1..Len(text) |-> IF text[i] = LF THEN <<CR, LF>> ELSE <<text[i]>>])

\* A plausible slip: the carriage returns are not removed first.
NormalizeKeepCR(text) == LFtoCRLF(StripTrailingWs(text, 1))

\* Another plausible slip: the trailing-whitespace pass is left out.
NormalizeKeepWs(text) == LFtoCRLF(StripCR(text))

\* Another: the carriage returns are removed after the trailing whitespace.
NormalizeWsFirst(text) == LFtoCRLF(StripCR(StripTrailingWs(text, 1)))

\* normalize EOL to canonical form <CR><LF>
Normalize(text) == LFtoCRLF(StripTrailingWs(StripCR(text), 1))

\* this.text.replace(/\r\n/g, "\n")
RECURSIVE CRLFtoLF(_, _)
CRLFtoLF(text, i) ==
  IF i > Len(text) THEN <<>>
  ELSE IF text[i] = CR /\ i < Len(text) /\ text[i + 1] = LF
       THEN <<LF>> \o CRLFtoLF(text, i + 2)
       ELSE <<text[i]>> \o CRLFtoLF(text, i + 1)

-----------------------------------------------------------------------------
(* enums and config (collaborators of the module) *)

enums_packet_signature == 2
enums_armor_signed     == 2
enums_armor_message    == 3
enums_signature_text   == 1

enums_hash == [md5 |-> 1, sha1 |-> 2, sha256 |-> 8]

config_prefer_hash_algorithm == 8

\* String.prototype.toLowerCase on a chunk.
ToLowerCase(chunk) ==
  CASE chunk = "SHA256" -> "sha256"
    [] chunk = "SHA1"   -> "sha1"
    [] chunk = "MD5"    -> "md5"
    [] chunk = "Md5"    -> "md5"
    [] chunk = "FOO"    -> "foo"
    [] chunk = "Hash"   -> "hash"
    [] chunk = "Comment" -> "comment"
    [] chunk = "X-"     -> "x-"
    [] OTHER            -> chunk

\* enums.write(enums.hash, hash): the id of a known name, 0 for "throws".
enums_write_hash(name) ==
  IF Len(name) = 1 /\ name[1] \in DOMAIN enums_hash THEN enums_hash[name[1]] ELSE 0

-----------------------------------------------------------------------------
(* Packets, signatures, messages *)

\* A packet of a packet list.  madeWith / madeOver record what the signature
\* value was really computed with and over (what signature.verify decides on).
Packet(tag, hashAlgorithm, issuerKeyId, publicKeyAlgorithm, madeWith, madeOver) ==
  [tag |-> tag, signatureType |-> enums_signature_text, hashAlgorithm |-> hashAlgorithm,
   issuerKeyId |-> issuerKeyId, publicKeyAlgorithm |-> publicKeyAlgorithm,
   madeWith |-> madeWith, madeOver |-> madeOver]

NoPacket == Packet(0, 0, 0, 0, "none", <<>>)

NoMsg == [id |-> 0, text |-> <<>>, signature |-> <<>>]

\* function CleartextMessage(text, signature): a new object `id`.
CleartextMessage(id, text, signature) ==
  [id |-> id, text |-> Normalize(text), signature |-> signature]

-----------------------------------------------------------------------------
(* verifyHeaders *)

NoMatch == [matched |-> FALSE, group |-> <<>>]

\* header.match(/Hash: (.+)/): the leftmost place at or after i where the text
\* "Hash: " is followed by at least one more character; the group is the rest
\* of the line.  The pattern is not anchored at the start of the line.
RECURSIVE MatchHashFrom(_, _)
MatchHashFrom(header, i) ==
  IF i + 3 > Len(header) THEN NoMatch
  ELSE IF header[i] = "Hash" /\ header[i + 1] = ":" /\ header[i + 2] = " "
       THEN [matched |-> TRUE, group |-> SubSeq(header, i + 3, Len(header))]
       ELSE MatchHashFrom(header, i + 1)

MatchHash(header) == MatchHashFrom(header, 1)

\* oneHeader[1].replace(/\s/g, '')
RemoveWhitespace(value) == SelectSeq(value, LAMBDA c : c \notin {" ", "\t"})

\* String.prototype.split(','): the pieces between the commas, from position i
\* on, `cur` being the piece read so far.
RECURSIVE SplitComma(_, _, _)
SplitComma(value, i, cur) ==
  IF i > Len(value) THEN <<cur>>
  ELSE IF value[i] = ","
       THEN <<cur>> \o SplitComma(value, i + 1, <<>>)
       ELSE SplitComma(value, i + 1, Append(cur, value[i]))

\* The map over the names of one Hash line: each name lower-cased and written
\* through enums.write (0 where enums.write throws).
HeaderAlgos(group) ==
  LET names == SplitComma(RemoveWhitespace(group), 1, <<>>)
  IN  [k \in 1..Len(names) |->
         enums_write_hash([j \in 1..Len(names[k]) |-> ToLowerCase(names[k][j])])]

ErrOnlyHash     == "Only \"Hash\" header allowed in cleartext signed message"
ErrUnknownHash  == "Unknown hash algorithm in armor header"
ErrOnlyMD5      == "If no \"Hash\" header in cleartext signed message, then only MD5 signatures allowed"
ErrMismatch     == "Hash algorithm mismatch in armor header and signature"
ErrNotSigned    == "No cleartext signed message."

\* headers.forEach(...): the headers from position i on, hashAlgos collected so
\* far; the first header that throws ends the loop.
RECURSIVE CollectHashAlgos(_, _, _)
CollectHashAlgos(headers, i, hashAlgos) ==
  IF i > Len(headers) THEN [err |-> "none", hashAlgos |-> hashAlgos]
  ELSE LET oneHeader == MatchHash(headers[i]) IN
       IF oneHeader.matched
       THEN LET algos == HeaderAlgos(oneHeader.group) IN
            IF \E k \in 1..Len(algos) : algos[k] = 0
            THEN [err |-> ErrUnknownHash, hashAlgos |-> hashAlgos]
            ELSE CollectHashAlgos(headers, i + 1, hashAlgos \o algos)
       ELSE [err |-> ErrOnlyHash, hashAlgos |-> hashAlgos]

\* var checkHashAlgos = function(hashAlgos) {...}
checkHashAlgos(packetlist, hashAlgos) ==
  \A i \in 1..Len(packetlist) :
    ~(packetlist[i].tag = enums_packet_signature
      /\ ~(\E k \in 1..Len(hashAlgos) : packetlist[i].hashAlgorithm = hashAlgos[k]))

\* The final test without the header/signature comparison.
FinalCheckNoMismatch(packetlist, hashAlgos) ==
  IF Len(hashAlgos) = 0 /\ ~checkHashAlgos(packetlist, <<enums_hash.md5>>) THEN ErrOnlyMD5
  ELSE "none"

\* if (!hashAlgos.length && !checkHashAlgos([enums.hash.md5])) throw ...
\* else if (!checkHashAlgos(hashAlgos)) throw ...
FinalCheck(packetlist, hashAlgos) ==
  IF Len(hashAlgos) = 0 /\ ~checkHashAlgos(packetlist, <<enums_hash.md5>>) THEN ErrOnlyMD5
  ELSE IF ~checkHashAlgos(packetlist, hashAlgos) THEN ErrMismatch
  ELSE "none"

\* function verifyHeaders(headers, packetlist): the error thrown, "none" if none.
verifyHeaders(headers, packetlist) ==
  LET c == CollectHashAlgos(headers, 1, <<>>) IN
  IF c.err # "none" THEN c.err ELSE FinalCheck(packetlist, c.hashAlgos)

\* The error readArmored throws on a decoded armor block, "none" if none.
readArmoredError(input) ==
  IF input.type # enums_armor_signed THEN ErrNotSigned
  ELSE verifyHeaders(input.headers, input.data)

\* export function readArmored(armoredText)
ReadArmored ==
  /\ pc = "callReadArmored"
  /\ LET err == readArmoredError(armorIn) IN
       /\ readErr' = err
       /\ IF err = "none"
          THEN /\ self' = CleartextMessage(1, armorIn.text, armorIn.data)
               /\ pc' = "created"
          ELSE /\ self' = NoMsg
               /\ pc' = "readFailed"
  /\ UNCHANGED <<rawText, armorIn, keys, armorOut, plainText, copyMsg, signVars, verVars, codecVars, engVars>>

\* new CleartextMessage(text): no signature given, so an empty packet list.
New ==
  /\ pc = "callNew"
  /\ self' = CleartextMessage(1, rawText, <<>>)
  /\ pc' = "created"
  /\ UNCHANGED <<rawText, armorIn, keys, readErr, armorOut, plainText, copyMsg, signVars, verVars, codecVars, engVars>>

-----------------------------------------------------------------------------
(* armor *)

\* enums.read(enums.hash, id): the name of a hash algorithm id.
enums_read_hash(id) == CHOOSE name \in DOMAIN enums_hash : enums_hash[name] = id

\* String.prototype.toUpperCase on a hash algorithm name.
ToUpperCase(name) ==
  CASE name = "sha256" -> "SHA256"
    [] name = "sha1"   -> "SHA1"
    [] name = "md5"    -> "MD5"
    [] OTHER           -> name

\* The body object of armor(): the value of the Hash header, the text and the
\* signature packets.
Body(hash, text, data) == [hash |-> hash, text |-> text, data |-> data]

NoBody == Body("none", <<>>, <<>>)

\* CleartextMessage.prototype.armor: the body handed to armor.encode.
armor(this) ==
  Body(ToUpperCase(enums_read_hash(config_prefer_hash_algorithm)), this.text, this.signature)

\* armor() is called on self.
ArmorCall ==
  /\ pc = "created"
  /\ armorOut = NoBody
  /\ armorOut' = armor(self)
  /\ UNCHANGED <<pc, rawText, armorIn, keys, self, readErr, plainText, copyMsg,
                 signVars, verVars, codecVars, engVars>>

\* getText() has not been called.
NoText == <<"none">>

\* CleartextMessage.prototype.getText
getText(this) == CRLFtoLF(this.text, 1)

\* getText() is called on self and a message is constructed from the text it
\* returns.
GetTextAndNew ==
  /\ pc = "created"
  /\ plainText = NoText
  /\ plainText' = getText(self)
  /\ copyMsg' = CleartextMessage(self.id + 2, getText(self), <<>>)
  /\ UNCHANGED <<pc, rawText, armorIn, keys, self, readErr, armorOut,
                 signVars, verVars, codecVars, engVars>>

-----------------------------------------------------------------------------
(* Keys (collaborator objects handed to sign and verify) *)

KeyPacket(keyid, algorithm, isDecrypted, material) ==
  [keyid |-> keyid, algorithm |-> algorithm, isDecrypted |-> isDecrypted, material |-> material]

\* getSigningKeyPacket found nothing (null).
NoKeyPacket == KeyPacket(0, 0, FALSE, "none")

\* primaryUser is what the key's verifyPrimaryUser() does: it resolves reporting
\* "valid" or "invalid", or it "rejects".
Key(name, isPublic, primaryUser, signingKeyPacket) ==
  [name |-> name, isPublic |-> isPublic, primaryUser |-> primaryUser,
   signingKeyPacket |-> signingKeyPacket]

K1      == Key("K1", FALSE, "valid", KeyPacket(1, 1, TRUE, "m1"))
K2      == Key("K2", FALSE, "valid", KeyPacket(2, 3, TRUE, "m2"))
K1pub   == Key("K1pub", TRUE, "valid", KeyPacket(1, 1, TRUE, "m1"))
Klocked == Key("Klocked", FALSE, "valid", KeyPacket(3, 1, FALSE, "m3"))
KnoSign == Key("KnoSign", FALSE, "valid", NoKeyPacket)
\* Another key whose signing key packet has the key id of K1's.
K1alt   == Key("K1alt", FALSE, "valid", KeyPacket(1, 1, TRUE, "mY"))
\* A key whose verifyPrimaryUser resolves reporting that the primary user is
\* not valid, and a key whose verifyPrimaryUser rejects.
Kinvalid == Key("Kinvalid", FALSE, "invalid", KeyPacket(4, 1, TRUE, "m4"))
Krejects == Key("Krejects", FALSE, "rejects", KeyPacket(5, 1, TRUE, "m5"))

\* key.getSigningKeyPacket(keyId, ...): the key's signing key packet when the
\* key has one and keyId is absent (0) or is that packet's key id.
getSigningKeyPacket(key, keyId) ==
  IF key.signingKeyPacket # NoKeyPacket /\ (keyId = 0 \/ key.signingKeyPacket.keyid = keyId)
  THEN key.signingKeyPacket
  ELSE NoKeyPacket

-----------------------------------------------------------------------------
(* sign / signDetached *)

ErrNeedPrivate  == "Need private key for signing"
ErrNoSigningKey == "Could not find valid key packet for signing in key"
ErrNotDecrypted == "Private key is not decrypted."
ErrPrimaryUser  == "verifyPrimaryUser rejected"

Task(p, err) == [pc |-> p, err |-> err]

\* Promise.all by completion order: the values in the order the promises settled.
PromiseAllByCompletion(values, order) ==
  [k \in 1..Len(order) |-> values[order[k]]]

\* Promise.all: the fulfilment values, in the order of the input promises,
\* whatever the order in which they settled.
PromiseAll(values, order) == values

\* The first rejection, in settling order, is what Promise.all rejects with.
RECURSIVE FirstRejection(_, _, _)
FirstRejection(tasks, order, k) ==
  IF k > Len(order) THEN "none"
  ELSE IF tasks[order[k]].pc = "rejected" THEN tasks[order[k]].err
       ELSE FirstRejection(tasks, order, k + 1)

\* Promise.allSettled: waits for every promise and never rejects.
PromiseAllSettledState(tasks, order) ==
  IF \A i \in DOMAIN tasks : tasks[i].pc \in {"fulfilled", "rejected"}
  THEN "fulfilled" ELSE "pending"

\* The state of Promise.all(promises): rejected as soon as one promise is
\* rejected, fulfilled once all are fulfilled.
PromiseAllState(tasks, order) ==
  IF FirstRejection(tasks, order, 1) # "none" THEN "rejected"
  ELSE IF \A i \in DOMAIN tasks : tasks[i].pc = "fulfilled" THEN "fulfilled"
  ELSE "pending"

\* Lines 87-90, run synchronously by privateKeys.map for each key.
signTaskStart(privateKey) ==
  IF privateKey.isPublic THEN Task("rejected", ErrNeedPrivate)
  ELSE Task("awaitVerifyPrimaryUser", "none")

\* The resumed function without the test of isDecrypted.
signTaskResumeNoDecryptedTest(privateKey) ==
  IF privateKey.primaryUser = "rejects" THEN Task("rejected", ErrPrimaryUser)
  ELSE IF getSigningKeyPacket(privateKey, 0) = NoKeyPacket THEN Task("rejected", ErrNoSigningKey)
  ELSE Task("awaitSign", "none")

\* The resumed function going on although verifyPrimaryUser rejected.
signTaskResumeIgnoreRejection(privateKey) ==
  LET signingKeyPacket == getSigningKeyPacket(privateKey, 0) IN
  IF signingKeyPacket = NoKeyPacket THEN Task("rejected", ErrNoSigningKey)
  ELSE IF ~signingKeyPacket.isDecrypted THEN Task("rejected", ErrNotDecrypted)
  ELSE Task("awaitSign", "none")

\* Lines 90-103, run when verifyPrimaryUser has settled: the await throws when
\* it rejected; the value it resolved with is not looked at.
signTaskResume(privateKey) ==
  LET signingKeyPacket == getSigningKeyPacket(privateKey, 0) IN
  IF privateKey.primaryUser = "rejects" THEN Task("rejected", ErrPrimaryUser)
  ELSE IF signingKeyPacket = NoKeyPacket THEN Task("rejected", ErrNoSigningKey)
  ELSE IF ~signingKeyPacket.isDecrypted THEN Task("rejected", ErrNotDecrypted)
  ELSE Task("awaitSign", "none")

\* Lines 96-99 and 103: the signature packet signDetached builds for a key and
\* has signed over the literal data packet holding `text`.
signaturePacket(privateKey, text) ==
  LET signingKeyPacket == getSigningKeyPacket(privateKey, 0) IN
  Packet(enums_packet_signature, config_prefer_hash_algorithm, signingKeyPacket.keyid,
         signingKeyPacket.algorithm, signingKeyPacket.material, text)

\* sign that adds the signatures to the receiver and returns the receiver.
signOutcomeInPlace(this, packetlist) ==
  LET m == [this EXCEPT !.signature = @ \o packetlist] IN [this |-> m, ret |-> m]

\* sign that returns a new message with the receiver's signatures and the new.
signOutcomeCarryOver(this, packetlist) ==
  [this |-> this, ret |-> CleartextMessage(this.id + 1, this.text, this.signature \o packetlist)]

\* return new CleartextMessage(this.text, await this.signDetached(privateKeys)):
\* the receiver afterwards and the message returned.
signOutcome(this, packetlist) ==
  [this |-> this, ret |-> CleartextMessage(this.id + 1, this.text, packetlist)]

\* sign(privateKeys) is called on self: signDetached runs up to its await.  The
\* promises and the result of an earlier, settled verify call are garbage by
\* now and are dropped from the state.
SignCall ==
  /\ pc = "created"
  /\ signPc = "idle"
  /\ verifyPc # "pending"
  /\ signPc' = "pending"
  /\ signThis0' = self
  /\ signTasks' = [i \in 1..Len(keys) |-> signTaskStart(keys[i])]
  /\ signValues' = [i \in 1..Len(keys) |-> NoPacket]
  /\ signOrder' = SelectSeq([i \in 1..Len(keys) |-> i], LAMBDA i : keys[i].isPublic)
  /\ verifyPc' = "idle" /\ verifyOn' = "self" /\ keyTasks' = <<>> /\ keyPacket' = <<>>
  /\ sigTasks' = <<>> /\ sigValues' = <<>> /\ sigOrder' = <<>>
  /\ verifyErr' = "none" /\ verifyRet' = <<>>
  /\ UNCHANGED <<msgVars, signErr, signRet, codecVars, engVars>>

\* The async function of key i resumes after `await privateKey.verifyPrimaryUser()`.
SignAfterVerifyPrimaryUser(i) ==
  /\ signPc # "idle"
  /\ i \in DOMAIN signTasks
  /\ signTasks[i].pc = "awaitVerifyPrimaryUser"
  /\ LET t == signTaskResume(keys[i]) IN
       /\ signTasks' = [signTasks EXCEPT ![i] = t]
       /\ signOrder' = IF t.pc = "rejected" THEN Append(signOrder, i) ELSE signOrder
  /\ UNCHANGED <<msgVars, signPc, signThis0, signValues, signErr, signRet, verVars, codecVars, engVars>>

\* The async function of key i resumes after `await signaturePacket.sign(...)`
\* and returns its signature packet.
SignAfterSign(i) ==
  /\ signPc # "idle"
  /\ i \in DOMAIN signTasks
  /\ signTasks[i].pc = "awaitSign"
  /\ signTasks' = [signTasks EXCEPT ![i] = Task("fulfilled", "none")]
  /\ signValues' = [signValues EXCEPT ![i] = signaturePacket(keys[i], signThis0.text)]
  /\ signOrder' = Append(signOrder, i)
  /\ UNCHANGED <<msgVars, signPc, signThis0, signErr, signRet, verVars, codecVars, engVars>>

\* Promise.all rejects with the first rejection: the await in signDetached
\* throws, and so does the await in sign.
SignReject ==
  /\ signPc = "pending"
  /\ PromiseAllState(signTasks, signOrder) = "rejected"
  /\ signPc' = "rejected"
  /\ signErr' = FirstRejection(signTasks, signOrder, 1)
  /\ UNCHANGED <<msgVars, signThis0, signTasks, signValues, signOrder, signRet, verVars, codecVars, engVars>>

\* Promise.all is fulfilled: the signature packets are pushed onto the new
\* packet list in list order, and sign returns the new message.
SignResolve ==
  /\ signPc = "pending"
  /\ PromiseAllState(signTasks, signOrder) = "fulfilled"
  /\ LET signatureList == PromiseAll(signValues, signOrder)
         o == signOutcome(self, signatureList)
     IN  /\ self' = o.this
         /\ signRet' = o.ret
  /\ signPc' = "resolved"
  /\ UNCHANGED <<pc, rawText, armorIn, keys, readErr, armorOut, plainText, copyMsg, signThis0, signTasks, signValues,
                 signOrder, signErr, verVars, codecVars, engVars>>

-----------------------------------------------------------------------------
(* crypto/signature: sign and verify *)

\* Big-endian bytes of a natural number, without leading zero bytes.
RECURSIVE bytesOf(_)
bytesOf(n) == IF n = 0 THEN <<>> ELSE Append(bytesOf(n \div 256), n % 256)

\* The natural number a big-endian byte array stands for.
RECURSIVE intOf(_)
intOf(b) == IF b = <<>> THEN 0 ELSE intOf(SubSeq(b, 1, Len(b) - 1)) * 256 + b[Len(b)]

\* The number of bits of a natural number.
RECURSIVE nbits(_)
nbits(n) == IF n = 0 THEN 0 ELSE 1 + nbits(n \div 2)

RECURSIVE StripLeadingZeros(_)
StripLeadingZeros(b) == IF b # <<>> /\ Head(b) = 0 THEN StripLeadingZeros(Tail(b)) ELSE b

Reverse(b) == [i \in 1..Len(b) |-> b[Len(b) + 1 - i]]

Zeros(n) == [i \in 1..n |-> 0]

\* A type/mpi object: the bit count read from the prefix and the bytes.
Mpi(bits, data) == [bits |-> bits, data |-> data]

\* mpi.write(): the two-byte bit count, then the bytes.
mpiWrite(mpi) == <<mpi.bits \div 256, mpi.bits % 256>> \o mpi.data

\* mpi.toBigInteger(): the magnitude, as big-endian bytes without leading zeros.
toBigInteger(mpi) == StripLeadingZeros(mpi.data)

\* mpi.read(bytes) from position pos: the bit count of the two-byte prefix,
\* then ceil(bits / 8) bytes, as far as there are any (subarray clamps).
mpiRead(bytes, pos) ==
  LET b0      == IF pos <= Len(bytes) THEN bytes[pos] ELSE 0
      b1      == IF pos + 1 <= Len(bytes) THEN bytes[pos + 1] ELSE 0
      bits    == b0 * 256 + b1
      bytelen == (bits + 7) \div 8
      last    == IF pos + 1 + bytelen <= Len(bytes) THEN pos + 1 + bytelen ELSE Len(bytes)
  IN  [mpi |-> Mpi(bits, SubSeq(bytes, pos + 2, last)), next |-> pos + 2 + bytelen]

\* The signature packet reads `count` integers from its signature bytes.
RECURSIVE readMPIs(_, _, _)
readMPIs(bytes, pos, count) ==
  IF count = 0 THEN <<>>
  ELSE LET r == mpiRead(bytes, pos) IN <<r.mpi>> \o readMPIs(bytes, r.next, count - 1)

\* util.Uint8Array2MPI(bin): the byte array behind a prefix that covers it.
Uint8Array2MPI(bin) == mpiWrite(Mpi(8 * Len(bin), bin))

\* BigInteger.prototype.toMPI(): the magnitude behind its bit count.
toMPI(n) == mpiWrite(Mpi(nbits(n), bytesOf(n)))

\* The character codes of the decimal digits of a natural number.
RECURSIVE digitsOf(_)
digitsOf(n) == IF n < 10 THEN <<48 + n>> ELSE Append(digitsOf(n \div 10), 48 + (n % 10))

\* util.str2Uint8Array(bigInteger.toString()): the decimal digits as bytes.
toDecimalString(n) == digitsOf(n)

\* array.toArrayLike(Uint8Array, 'le', width): little-endian, fixed width.
toArrayLikeLE(n, width) ==
  LET be == bytesOf(n) IN Reverse(Zeros(width - Len(be)) \o be)

RECURSIVE ModExp(_, _, _)
ModExp(b, e, m) ==
  IF e = 0 THEN 1 % m
  ELSE LET h == ModExp(b, e \div 2, m) IN
       IF e % 2 = 0 THEN (h * h) % m ELSE (((h * h) % m) * b) % m

ModInv(a, q) == CHOOSE i \in 1..(q - 1) : (a * i) % q = 1

RECURSIVE SumBytes(_)
SumBytes(data) == IF data = <<>> THEN 0 ELSE Head(data) + SumBytes(Tail(data))

\* The digest of the data under a hash algorithm, as a number.
Digest(hash_algo, data) == hash_algo * 31 + SumBytes(data) * 7 + Len(data)

\* pkcs1.emsa.encode(hash_algo, data, k): the encoded message, below 2^(8k-1).
emsa_encode(hash_algo, data, k) == 2 + (Digest(hash_algo, data) % 3000)

\* RSA_RAW.sign(m, [n, e, d]): k bytes.
RSA_RAW_sign(m, n, e, d, k) ==
  LET be == bytesOf(ModExp(m, d, n)) IN Zeros(k - Len(be)) \o be

\* RSA_RAW.verify(m, [n, e]): the number the signature bytes open to.
RSA_RAW_verify(m, n, e) == ModExp(intOf(m) % n, e, n)

\* dsa.sign(hash_algo, m, g, p, q, x) with the random number k: the pair (r, s).
dsa_sign(hash_algo, m, g, p, q, x, k) ==
  LET r == ModExp(g, k, p) % q
  IN  <<r, (ModInv(k, q) * (Digest(hash_algo, m) + x * r)) % q>>

NullBigInteger == -1

\* dsa.verify(hash_algo, s1, s2, m, p, q, g, y): null when s1 or s2 is out of
\* range, else the value to compare with s1.
dsa_verify(hash_algo, s1, s2, m, p, q, g, y) ==
  IF s1 <= 0 \/ s1 >= q \/ s2 <= 0 \/ s2 >= q THEN NullBigInteger
  ELSE LET w  == ModInv(s2, q)
           u1 == (Digest(hash_algo, m) * w) % q
           u2 == (s1 * w) % q
       IN  ((ModExp(g, u1, p) * ModExp(y, u2, p)) % p) % q

\* The group the curve operations are modelled in: order CurveQ, generator
\* CurveG, modulo CurveP.
CurveP == 23
CurveQ == 11
CurveG == 4

\* ecdsa.sign(oid, hash_algo, m, d) with the random number k: {r, s}.
ecdsa_sign(hash_algo, m, d, k) == dsa_sign(hash_algo, m, CurveG, CurveP, CurveQ, d, k)

\* ecdsa.verify(oid, hash_algo, {r, s}, m, Q)
ecdsa_verify(hash_algo, r, s, m, Q) ==
  LET v == dsa_verify(hash_algo, r, s, m, CurveP, CurveQ, CurveG, Q)
  IN  v # NullBigInteger /\ v = r

EdWidth == 32

\* eddsa.sign(oid, hash_algo, m, d) with the random number k: {R, S}.
eddsa_sign(hash_algo, m, d, k) ==
  <<ModExp(CurveG, k, CurveP), (k + Digest(hash_algo, m) * d) % CurveQ>>

\* eddsa.verify(oid, hash_algo, {R, S}, m, Q): R and S come as big integers
\* read big-endian from the little-endian bytes and are turned back.
eddsa_verify(hash_algo, R, S, m, Q) ==
  LET back(x) == IF Len(x) > EdWidth THEN -1
                 ELSE LET be == StripLeadingZeros(Reverse(Zeros(EdWidth - Len(x)) \o x))
                      IN  IF Len(be) > 1 THEN -1 ELSE intOf(be)
      r == back(R)
      s == back(S)
  IN  /\ r > 0 /\ r < CurveP /\ s >= 0 /\ s < CurveQ
      /\ ModExp(CurveG, s, CurveP) = (r * ModExp(Q, Digest(hash_algo, m) % CurveQ, CurveP)) % CurveP

ErrElgamalSign   == "Signing with Elgamal is not defined in the OpenPGP standard."
ErrElgamalVerify == "signing with Elgamal is not defined in the OpenPGP standard."
ErrInvalidAlgo   == "Invalid signature algorithm."
ErrTypeError     == "TypeError"

\* What a call of sign or verify gave: the error thrown ("none" if none), the
\* value returned, and the algorithm variants whose code ran.
Returned(variant, value) == [threw |-> "none", value |-> value, ran |-> <<variant>>]
Threw(err, ran)          == [threw |-> err, value |-> <<>>, ran |-> ran]
NoOutcome                == [threw |-> "none", value |-> <<>>, ran |-> <<>>]

\* switch (algo) of sign with the default case taken for RSA.
signCaseDefaultRsa(algo) ==
  CASE algo = 17 -> "dsa"
    [] algo = 16 -> "elgamal"
    [] algo = 19 -> "ecdsa"
    [] algo = 22 -> "eddsa"
    [] OTHER     -> "rsa"

\* switch (algo) of sign: the case the algorithm id selects.
signCase(algo) ==
  CASE algo \in {1, 2, 3} -> "rsa"
    [] algo = 17          -> "dsa"
    [] algo = 16          -> "elgamal"
    [] algo = 19          -> "ecdsa"
    [] algo = 22          -> "eddsa"
    [] OTHER              -> "default"

\* switch (algo) of verify: the case the algorithm id selects.
verifyCase(algo) ==
  CASE algo \in {1, 2, 3} -> "rsa"
    [] algo = 16          -> "elgamal"
    [] algo = 17          -> "dsa"
    [] algo = 19          -> "ecdsa"
    [] algo = 22          -> "eddsa"
    [] OTHER              -> "default"

\* sign: async function(algo, hash_algo, keyIntegers, data); k is the random
\* number the algorithm draws.
engineSign(algo, hash_algo, keyIntegers, data, k) ==
  LET c == signCase(algo) IN
  CASE c = "rsa" ->
         LET n  == keyIntegers[1]
             kk == Len(bytesOf(n))
             e  == keyIntegers[2]
             d  == keyIntegers[3]
             m  == emsa_encode(hash_algo, data, kk)
         IN  Returned("rsa", Uint8Array2MPI(RSA_RAW_sign(m, n, e, d, kk)))
    [] c = "dsa" ->
         LET result == dsa_sign(hash_algo, data, keyIntegers[3], keyIntegers[1],
                                keyIntegers[2], keyIntegers[5], k)
         IN  Returned("dsa", toDecimalString(result[1]) \o toDecimalString(result[2]))
    [] c = "elgamal" -> Threw(ErrElgamalSign, <<>>)
    [] c = "ecdsa" ->
         LET signature == ecdsa_sign(hash_algo, data, keyIntegers[3], k)
         IN  Returned("ecdsa", toMPI(signature[1]) \o toMPI(signature[2]))
    [] c = "eddsa" ->
         LET signature == eddsa_sign(hash_algo, data, keyIntegers[3], k)
         IN  Returned("eddsa", Uint8Array2MPI(toArrayLikeLE(signature[1], EdWidth))
                                 \o Uint8Array2MPI(toArrayLikeLE(signature[2], EdWidth)))
    [] OTHER -> Threw(ErrInvalidAlgo, <<>>)

\* verify: async function(algo, hash_algo, msg_MPIs, publickey_MPIs, data)
engineVerify(algo, hash_algo, msg_MPIs, publickey_MPIs, data) ==
  LET c == verifyCase(algo) IN
  CASE c = "rsa" ->
         LET n   == publickey_MPIs[1]
             kk  == Len(bytesOf(n))
             e   == publickey_MPIs[2]
             m   == SubSeq(mpiWrite(msg_MPIs[1]), 3, Len(mpiWrite(msg_MPIs[1])))
             EM  == RSA_RAW_verify(m, n, e)
             EM2 == emsa_encode(hash_algo, data, kk)
         IN  Returned("rsa", EM = EM2)
    [] c = "elgamal" -> Threw(ErrElgamalVerify, <<>>)
    [] c = "dsa" ->
         LET s1 == intOf(toBigInteger(msg_MPIs[1]))
             s2 == intOf(toBigInteger(msg_MPIs[2]))
             dopublic == dsa_verify(hash_algo, s1, s2, data, publickey_MPIs[1],
                                    publickey_MPIs[2], publickey_MPIs[3], publickey_MPIs[4])
         IN  IF dopublic = NullBigInteger THEN Threw(ErrTypeError, <<"dsa">>)
             ELSE Returned("dsa", dopublic = s1)
    [] c = "ecdsa" ->
         Returned("ecdsa", ecdsa_verify(hash_algo, intOf(toBigInteger(msg_MPIs[1])),
                                        intOf(toBigInteger(msg_MPIs[2])), data, publickey_MPIs[2]))
    [] c = "eddsa" ->
         Returned("eddsa", eddsa_verify(hash_algo, toBigInteger(msg_MPIs[1]),
                                        toBigInteger(msg_MPIs[2]), data, publickey_MPIs[2]))
    [] OTHER -> Threw(ErrInvalidAlgo, <<>>)

-----------------------------------------------------------------------------
(* verify / verifyDetached *)

VerifiedSig(keyid, valid, signature) == [keyid |-> keyid, valid |-> valid, signature |-> signature]

NoVerifiedSig == VerifiedSig(0, "none", <<>>)

\* crypto/signature verify(algo, ...): `ok` is what the algorithm's check gives;
\* an algorithm id without a verify path throws.
SignatureEngineVerify(algo, ok) ==
  IF algo \in {1, 2, 3, 17, 19, 22} THEN (IF ok THEN "true" ELSE "false") ELSE "throws"

\* signature.verify(keyPacket, literalDataPacket): the signature checks out when
\* it was made with the key packet's key material over the same text.
signatureVerify(signature, kp, text) ==
  SignatureEngineVerify(signature.publicKeyAlgorithm,
                        signature.madeWith = kp.material /\ signature.madeOver = text)

\* The message verify was called on.
Receiver == IF verifyOn = "ret" THEN signRet ELSE self

\* The lookup result is stored whether or not a key packet was found.
keyLookupAlways(cur, result) == result

\* if (result) { keyPacket = result; }
keyLookup(cur, result) == IF result # NoKeyPacket THEN result ELSE cur

\* verify(keys) is called on self (on = "self") or on the message sign returned
\* (on = "ret"): every signature's function and, inside it, every key's function
\* runs up to its first await.  The promises of an earlier, settled sign call
\* are garbage by now and are dropped from the state.
VerifyCall(on) ==
  /\ pc = "created"
  /\ verifyPc \in {"idle", "resolved", "rejected"}
  /\ signPc # "pending"
  /\ on = "ret" => signPc = "resolved"
  /\ verifyOn' = on
  /\ verifyPc' = "pending"
  /\ LET signatureList == (IF on = "ret" THEN signRet ELSE self).signature IN
       /\ keyTasks' = [i \in 1..Len(signatureList) |->
                          [j \in 1..Len(keys) |-> "awaitVerifyPrimaryUser"]]
       /\ keyPacket' = [i \in 1..Len(signatureList) |-> NoKeyPacket]
       /\ sigTasks' = [i \in 1..Len(signatureList) |-> Task("awaitKeys", "none")]
       /\ sigValues' = [i \in 1..Len(signatureList) |-> NoVerifiedSig]
  /\ sigOrder' = <<>>
  /\ verifyErr' = "none"
  /\ verifyRet' = <<>>
  /\ signTasks' = <<>> /\ signValues' = <<>> /\ signOrder' = <<>>
  /\ UNCHANGED <<msgVars, signPc, signThis0, signErr, signRet, codecVars, engVars>>

\* For signature i, the function of key j resumes after
\* `await key.verifyPrimaryUser()`: it throws when that rejected, and else
\* looks the issuer key id up in the key.
VerifyKeyLookup(i, j) ==
  /\ verifyPc # "idle"
  /\ i \in DOMAIN keyTasks
  /\ j \in DOMAIN keyTasks[i]
  /\ keyTasks[i][j] = "awaitVerifyPrimaryUser"
  /\ IF keys[j].primaryUser = "rejects"
     THEN /\ keyTasks' = [keyTasks EXCEPT ![i][j] = "rejected"]
          /\ UNCHANGED keyPacket
     ELSE /\ LET result == getSigningKeyPacket(keys[j], Receiver.signature[i].issuerKeyId) IN
               keyPacket' = [keyPacket EXCEPT ![i] = keyLookup(@, result)]
          /\ keyTasks' = [keyTasks EXCEPT ![i][j] = "done"]
  /\ UNCHANGED <<msgVars, signVars, verifyPc, verifyOn, sigTasks, sigValues, sigOrder,
                 verifyErr, verifyRet, codecVars, engVars>>

\* The function of signature i resumes after the inner Promise.all: it throws
\* when a key function threw; without a key packet it returns valid: null,
\* with one it calls signature.verify.
VerifyAfterKeys(i) ==
  /\ verifyPc # "idle"
  /\ i \in DOMAIN sigTasks
  /\ sigTasks[i].pc = "awaitKeys"
  /\ \/ \E j \in DOMAIN keyTasks[i] : keyTasks[i][j] = "rejected"
     \/ \A j \in DOMAIN keyTasks[i] : keyTasks[i][j] = "done"
  /\ IF \E j \in DOMAIN keyTasks[i] : keyTasks[i][j] = "rejected"
     THEN /\ sigTasks' = [sigTasks EXCEPT ![i] = Task("rejected", ErrPrimaryUser)]
          /\ sigOrder' = Append(sigOrder, i)
          /\ UNCHANGED sigValues
     ELSE IF keyPacket[i] = NoKeyPacket
     THEN /\ sigTasks' = [sigTasks EXCEPT ![i] = Task("fulfilled", "none")]
          /\ sigValues' = [sigValues EXCEPT ![i] =
               VerifiedSig(Receiver.signature[i].issuerKeyId, "null", <<Receiver.signature[i]>>)]
          /\ sigOrder' = Append(sigOrder, i)
     ELSE /\ sigTasks' = [sigTasks EXCEPT ![i] = Task("awaitVerify", "none")]
          /\ UNCHANGED <<sigValues, sigOrder>>
  /\ UNCHANGED <<msgVars, signVars, verifyPc, verifyOn, keyTasks, keyPacket,
                 verifyErr, verifyRet, codecVars, engVars>>

\* The function of signature i resumes after `await signature.verify(...)`.
VerifyAfterVerify(i) ==
  /\ verifyPc # "idle"
  /\ i \in DOMAIN sigTasks
  /\ sigTasks[i].pc = "awaitVerify"
  /\ LET valid == signatureVerify(Receiver.signature[i], keyPacket[i], Receiver.text) IN
       IF valid = "throws"
       THEN /\ sigTasks' = [sigTasks EXCEPT ![i] = Task("rejected", ErrInvalidAlgo)]
            /\ UNCHANGED sigValues
       ELSE /\ sigTasks' = [sigTasks EXCEPT ![i] = Task("fulfilled", "none")]
            /\ sigValues' = [sigValues EXCEPT ![i] =
                 VerifiedSig(Receiver.signature[i].issuerKeyId, valid, <<Receiver.signature[i]>>)]
  /\ sigOrder' = Append(sigOrder, i)
  /\ UNCHANGED <<msgVars, signVars, verifyPc, verifyOn, keyTasks, keyPacket,
                 verifyErr, verifyRet, codecVars, engVars>>

\* The outer Promise.all rejects.
VerifyReject ==
  /\ verifyPc = "pending"
  /\ PromiseAllState(sigTasks, sigOrder) = "rejected"
  /\ verifyPc' = "rejected"
  /\ verifyErr' = FirstRejection(sigTasks, sigOrder, 1)
  /\ UNCHANGED <<msgVars, signVars, verifyOn, keyTasks, keyPacket, sigTasks, sigValues,
                 sigOrder, verifyRet, codecVars, engVars>>

\* The outer Promise.all is fulfilled with the list of verifiedSig objects.
VerifyResolve ==
  /\ verifyPc = "pending"
  /\ PromiseAllState(sigTasks, sigOrder) = "fulfilled"
  /\ verifyPc' = "resolved"
  /\ verifyRet' = PromiseAll(sigValues, sigOrder)
  /\ UNCHANGED <<msgVars, signVars, verifyOn, keyTasks, keyPacket, sigTasks, sigValues,
                 sigOrder, verifyErr, codecVars, engVars>>

-----------------------------------------------------------------------------
(* Radix-64 codec: s2r and r2s *)

b64s == <<"A","B","C","D","E","F","G","H","I","J","K","L","M","N","O","P","Q","R","S","T",
          "U","V","W","X","Y","Z","a","b","c","d","e","f","g","h","i","j","k","l","m","n",
          "o","p","q","r","s","t","u","v","w","x","y","z","0","1","2","3","4","5","6","7",
          "8","9","+","/">>

b64u == [k \in 1..64 |-> IF k = 63 THEN "-" ELSE IF k = 64 THEN "_" ELSE b64s[k]]

LineLength == 60

\* b64.charAt(k)
charAt(b64, k) == b64[k + 1]

\* b64.indexOf(ch): -1 when ch is not in the alphabet.
indexOf(b64, ch) ==
  IF \E k \in 1..64 : b64[k] = ch THEN (CHOOSE k \in 1..64 : b64[k] = ch) - 1 ELSE -1

\* if ((l % 60) === 0 && !u) { r.push("\n"); }
lineBreak(l, u) == IF l % LineLength = 0 /\ ~u THEN <<"\n">> ELSE <<>>

\* One pass of the for loop of s2r on byte c: st.r the output so far, st.l the
\* characters counted, st.s the position in the 3-byte group, st.a the bits
\* carried over.
s2rStep(st, c, u) ==
  LET b64 == IF u THEN b64u ELSE b64s IN
  IF st.s = 0
  THEN [r |-> st.r \o <<charAt(b64, (c \div 4) % 64)>> \o lineBreak(st.l + 1, u),
        l |-> st.l + 1, s |-> 1, a |-> (c % 4) * 16]
  ELSE IF st.s = 1
  THEN [r |-> st.r \o <<charAt(b64, st.a + ((c \div 16) % 16))>> \o lineBreak(st.l + 1, u),
        l |-> st.l + 1, s |-> 2, a |-> (c % 16) * 4]
  ELSE [r |-> st.r \o <<charAt(b64, st.a + ((c \div 64) % 4))>> \o lineBreak(st.l + 1, u)
                \o <<charAt(b64, c % 64)>> \o lineBreak(st.l + 2, u),
        l |-> st.l + 2, s |-> 0, a |-> st.a]

\* The passes of the for loop of s2r for n = lo..hi, one after the other.  The
\* range is halved, and the left half evaluated first (the test on left.s is
\* always true), only to keep the evaluation shallow.
RECURSIVE s2rLoop(_, _, _, _, _)
s2rLoop(t, u, lo, hi, st) ==
  IF lo > hi THEN st
  ELSE IF lo = hi THEN s2rStep(st, t[lo], u)
  ELSE LET mid  == (lo + hi) \div 2
           left == s2rLoop(t, u, lo, mid, st)
       IN  IF left.s >= 0 THEN s2rLoop(t, u, mid + 1, hi, left) ELSE left

s2rInit == [r |-> <<>>, l |-> 0, s |-> 0, a |-> 0]

\* s2r without the code after the loop: the bits carried over are not written.
s2rNoTail(t, u) == s2rLoop(t, u, 1, Len(t), s2rInit).r

\* function s2r(t, u = false)
s2r(t, u) ==
  LET b64  == IF u THEN b64u ELSE b64s
      loop == s2rLoop(t, u, 1, Len(t), s2rInit)
      l1   == loop.l + 1
      r1   == IF loop.s > 0
              THEN loop.r \o <<charAt(b64, loop.a)>> \o lineBreak(l1, u)
                     \o (IF ~u THEN <<"=">> ELSE <<>>)
              ELSE loop.r
      l2   == IF loop.s > 0 THEN (IF ~u THEN l1 + 1 ELSE l1) ELSE loop.l
  IN  IF loop.s = 1 /\ ~u THEN r1 \o lineBreak(l2, u) \o <<"=">> ELSE r1

\* A pass of the loop of r2s that takes a character outside the alphabet for
\* the first character of the alphabet.
r2sStepNoSkip(st, ch, u) ==
  LET i  == indexOf(IF u THEN b64u ELSE b64s, ch)
      c  == IF i >= 0 THEN i ELSE 0
      s1 == (st.s + 2) % 8
  IN  [r |-> IF st.s # 0 THEN Append(st.r, st.a + ((c \div (2 ^ (6 - st.s))) % 256)) ELSE st.r,
       s |-> s1, a |-> (c * (2 ^ s1)) % 256]

\* One pass of the for loop of r2s on character ch: st.r the bytes so far,
\* st.s the bit position, st.a the bits carried over.
r2sStep(st, ch, u) ==
  LET c == indexOf(IF u THEN b64u ELSE b64s, ch) IN
  IF c >= 0
  THEN LET s1 == (st.s + 2) % 8 IN
       [r |-> IF st.s # 0 THEN Append(st.r, st.a + ((c \div (2 ^ (6 - st.s))) % 256)) ELSE st.r,
        s |-> s1, a |-> (c * (2 ^ s1)) % 256]
  ELSE st

\* The passes of the for loop of r2s for n = lo..hi, one after the other.
RECURSIVE r2sLoop(_, _, _, _, _)
r2sLoop(t, u, lo, hi, st) ==
  IF lo > hi THEN st
  ELSE IF lo = hi THEN r2sStep(st, t[lo], u)
  ELSE LET mid  == (lo + hi) \div 2
           left == r2sLoop(t, u, lo, mid, st)
       IN  IF left.s >= 0 THEN r2sLoop(t, u, mid + 1, hi, left) ELSE left

\* function r2s(t, u)
r2s(t, u) == r2sLoop(t, u, 1, Len(t), [r |-> <<>>, s |-> 0, a |-> 0]).r

\* s2r is applied to the byte array.
Encode ==
  /\ codecPc = "encode"
  /\ codecR' = s2r(codecT, codecU)
  /\ codecPc' = "decode"
  /\ UNCHANGED <<msgVars, signVars, verVars, engVars, codecT, codecU, codecBack, codecAlt, codecAltBack>>

\* r2s is applied to what s2r returned.
Decode ==
  /\ codecPc = "decode"
  /\ codecBack' = r2s(codecR, codecU)
  /\ codecPc' = "done"
  /\ UNCHANGED <<msgVars, signVars, verVars, engVars, codecT, codecU, codecR, codecAlt, codecAltBack>>

\* The characters of a string that are in the active alphabet.
inAlphabet(ch, u) == indexOf(IF u THEN b64u ELSE b64s, ch) >= 0

\* The string s2r returned with one character ch put in after position p.
InsertAt(t, p, ch) == SubSeq(t, 1, p) \o <<ch>> \o SubSeq(t, p + 1, Len(t))

\* The ways the string s2r returned is altered before it is decoded again: a
\* character outside the active alphabet is put in at the start, in the middle
\* or at the end; the characters outside the alphabet (newlines, padding) are
\* taken out; the string is cut off after a few characters.
Alterations(t, u) ==
  {InsertAt(t, p, ch) :
     p \in {0, Len(t) \div 2, Len(t)},
     ch \in {c \in {"\n", " ", "=", "+", "/", "-", "_"} : ~inAlphabet(c, u)}}
  \cup {SelectSeq(t, LAMBDA c : inAlphabet(c, u))}
  \cup {SubSeq(t, 1, n) : n \in {m \in {1, 2, 5, 63} : m <= Len(t)}}

\* r2s is applied to an altered string.
DecodeAltered ==
  /\ codecPc = "done"
  /\ \E alt \in Alterations(codecR, codecU) :
       /\ codecAlt' = alt
       /\ codecAltBack' = r2s(alt, codecU)
  /\ codecPc' = "altered"
  /\ UNCHANGED <<msgVars, signVars, verVars, engVars, codecT, codecU, codecR, codecBack>>

-----------------------------------------------------------------------------
(* Bounds and input sets *)

MaxTextLen == 3
MaxHeaders == 2
MaxPackets == 1
MaxReadPackets == 2
MaxKeys    == 2
MaxLen     == 3
MaxLongLen == 91
MaxRandom  == 2

Chars == {"a", CR, LF, SP, TAB}

\* "a\r\nb \n c\r"
ExampleText == <<"a", CR, LF, "b", SP, LF, SP, "c", CR>>

Texts == SeqsUpTo(Chars, MaxTextLen) \cup {ExampleText}

FlowTexts == {<<"a">>, <<"a", SP, LF, "b", CR>>}

HashSHA256 == <<"Hash", ":", " ", "SHA256">>

HeaderLines ==
  { HashSHA256,
    <<"Hash", ":", " ", "MD5">>,
    <<"Hash", ":", " ", "sha1", ",", " ", "Md5">>,
    <<"Hash", ":", " ", "SHA256", ",", "FOO">>,
    <<"Hash", ":", " ">>,
    <<"hash", ":", " ", "SHA256">>,
    <<"Comment", ":", " ", "x">>,
    <<"Comment", ":", " ", "Hash", ":", " ", "MD5">>,
    <<"X-", "Hash", ":", " ", "SHA256">> }

\* The packets an armor block can carry in the header checks: a signature packet
\* per hash algorithm and a packet that is no signature packet (a literal packet).
HashPackets ==
  {Packet(enums_packet_signature, h, 1, 1, "m1", <<"a">>) : h \in {1, 2, 8}}
    \cup {Packet(11, 0, 0, 0, "none", <<>>)}

\* The signature packets an armor block over `text` can carry in the verify
\* flows: made by K1, forged in K1's name, and in K1's name with the Elgamal
\* algorithm id.
FlowPackets(text) ==
  { Packet(enums_packet_signature, 8, 1, 1, "m1", Normalize(text)),
    Packet(enums_packet_signature, 8, 1, 1, "mX", Normalize(text)),
    Packet(enums_packet_signature, 8, 1, 16, "m1", Normalize(text)) }

Armor(type, headers, data, text) == [type |-> type, headers |-> headers, data |-> data, text |-> text]

NoArmor == Armor(0, <<>>, <<>>, <<>>)

ReadArmors ==
  {Armor(ty, h, d, <<"a">>) :
     ty \in {enums_armor_signed},
     h \in SeqsUpTo(HeaderLines, MaxHeaders),
     d \in SeqsUpTo(HashPackets, MaxReadPackets)}
  \cup {Armor(enums_armor_message, <<HashSHA256>>, <<>>, <<"a">>)}

TextArmors ==
  {Armor(enums_armor_signed, <<HashSHA256>>, d, t) :
     d \in {<<>>, <<Packet(enums_packet_signature, 8, 1, 1, "m1", <<"a">>)>>}, t \in Texts}

FlowArmors ==
  UNION {{Armor(enums_armor_signed, <<HashSHA256>>, d, t) :
            d \in SeqsUpTo(FlowPackets(t), MaxPackets)} : t \in {<<"a", LF>>}}

KeyPool == {K1, K2, K1pub, Klocked, KnoSign}

\* The key arrays handed to sign and verify on a message made by the constructor.
KeyLists == SeqsUpTo(KeyPool, MaxKeys)

\* The key arrays handed to sign in the signing flows.
SignKeyLists == SeqsUpTo({K1, K2, Kinvalid, Krejects, K1pub, Klocked, KnoSign}, MaxKeys)

\* The key arrays handed to sign and verify on a message read from an armor
\* block: the key id of K1 and K1alt is named as issuer by its packets, that of
\* Krejects by none.
VerifyKeyLists == SeqsUpTo({K1, K1alt, Krejects}, MaxKeys)

ByteSamples == {0, 65, 251, 255}

\* A byte array of length n whose bytes run through many values.
Pattern(k, n) == [i \in 1..n |-> (k + 37 * i) % 256]

CodecInputs ==
  SeqsUpTo(ByteSamples, MaxLen) \cup {Pattern(k, n) : k \in {0, 101}, n \in 0..MaxLongLen}

\* The algorithm ids sign and verify are called with.
Algos == {0, 1, 2, 3, 4, 15, 16, 17, 18, 19, 20, 21, 22, 23}

EngineData == {<<>>, <<1>>, <<2, 200>>}

\* The number of integers the signature packet reads for an algorithm.
mpiCount(algo) == IF algo \in {1, 2, 3} THEN 1 ELSE 2

\* The key material of an algorithm: the public integers and, for signing, the
\* public followed by the private integers.
EngineKey(publickey_MPIs, keyIntegers) == [publickey_MPIs |-> publickey_MPIs, keyIntegers |-> keyIntegers]

RsaKey   == EngineKey(<<3233, 17>>, <<3233, 17, 2753>>)
DsaKey   == EngineKey(<<23, 11, 4, 18>>, <<23, 11, 4, 18, 3>>)
CurveKey == EngineKey(<<0, 12>>, <<0, 12, 5>>)

EngineKeyFor(algo) ==
  CASE algo = 17         -> DsaKey
    [] algo \in {19, 22} -> CurveKey
    [] OTHER             -> RsaKey

\* The random numbers an algorithm can draw for a key and data: those that
\* give a usable pair.
RandomKs(algo, hash_algo, key, data) ==
  IF algo \in {17, 19}
  THEN {k \in 1..MaxRandom :
          LET p == dsa_sign(hash_algo, data, CurveG, CurveP, CurveQ, key.keyIntegers[Len(key.keyIntegers)], k)
          IN  p[1] # 0 /\ p[2] # 0}
  ELSE IF algo = 22 THEN 1..MaxRandom
  ELSE {1}

\* sign is called.
EngineSign ==
  /\ engPc = "sign"
  /\ \E k \in RandomKs(engAlgo, engHash, engKey, engData) :
       engSigned' = engineSign(engAlgo, engHash, engKey.keyIntegers, engData, k)
  /\ engPc' = "verify"
  /\ UNCHANGED <<msgVars, signVars, verVars, codecVars, engAlgo, engHash, engKey, engData,
                 engMsg, engVerified>>

\* The signature bytes are read by a signature packet and verify is called on
\* the integers: on the bytes sign returned, on these with the last byte
\* changed, or, when sign threw, on two small integers.
EngineVerify ==
  /\ engPc = "verify"
  /\ \E bytes \in (IF engSigned.threw = "none"
                   THEN {engSigned.value,
                         [engSigned.value EXCEPT ![Len(engSigned.value)] = (@ + 1) % 256]}
                   ELSE {toMPI(5) \o toMPI(7)}) :
       /\ engMsg' = bytes
       /\ engVerified' = engineVerify(engAlgo, engHash, readMPIs(bytes, 1, mpiCount(engAlgo)),
                                      engKey.publickey_MPIs, engData)
  /\ engPc' = "done"
  /\ UNCHANGED <<msgVars, signVars, verVars, codecVars, engAlgo, engHash, engKey, engData,
                 engSigned>>

-----------------------------------------------------------------------------
(* Specifications *)

InitEngineOff ==
  /\ engPc = "off" /\ engAlgo = 0 /\ engHash = 0 /\ engKey = EngineKey(<<>>, <<>>)
  /\ engData = <<>> /\ engSigned = NoOutcome /\ engMsg = <<>> /\ engVerified = NoOutcome

InitSign ==
  /\ signPc = "idle" /\ signThis0 = NoMsg /\ signTasks = <<>> /\ signValues = <<>>
  /\ signOrder = <<>> /\ signErr = "none" /\ signRet = NoMsg

InitVerify ==
  /\ verifyPc = "idle" /\ verifyOn = "self" /\ keyTasks = <<>> /\ keyPacket = <<>>
  /\ sigTasks = <<>> /\ sigValues = <<>> /\ sigOrder = <<>>
  /\ verifyErr = "none" /\ verifyRet = <<>>

InitCodecOff ==
  /\ codecPc = "done" /\ codecT = <<>> /\ codecU = FALSE /\ codecR = <<>> /\ codecBack = <<>>
  /\ codecAlt = <<>> /\ codecAltBack = <<>>

\* The caller constructs a message from text or reads one from an armor block.
InitMsg(texts, newKeyLists, armors, readKeyLists) ==
  /\ \/ pc = "callNew" /\ rawText \in texts /\ armorIn = NoArmor /\ keys \in newKeyLists
     \/ pc = "callReadArmored" /\ rawText = <<>> /\ armorIn \in armors /\ keys \in readKeyLists
  /\ self = NoMsg
  /\ readErr = "none"
  /\ armorOut = NoBody /\ plainText = NoText /\ copyMsg = NoMsg

SignStep ==
  \/ SignCall
  \/ \E i \in DOMAIN signTasks : SignAfterVerifyPrimaryUser(i)
  \/ \E i \in DOMAIN signTasks : SignAfterSign(i)
  \/ SignReject
  \/ SignResolve

VerifyStep ==
  \/ \E on \in {"self", "ret"} : VerifyCall(on)
  \/ \E i \in DOMAIN sigTasks, j \in DOMAIN keys : VerifyKeyLookup(i, j)
  \/ \E i \in DOMAIN sigTasks : VerifyAfterKeys(i)
  \/ \E i \in DOMAIN sigTasks : VerifyAfterVerify(i)
  \/ VerifyReject
  \/ VerifyResolve

\* The message flows: construct or read, sign, verify.
Init == InitMsg(FlowTexts, KeyLists, FlowArmors, VerifyKeyLists) /\ InitSign /\ InitVerify /\ InitCodecOff /\ InitEngineOff

Next == New \/ ReadArmored \/ SignStep \/ VerifyStep

Spec == Init /\ [][Next]_vars

\* readArmored on armor blocks with many header sets.
InitRead ==
  /\ pc = "callReadArmored" /\ rawText = <<>> /\ armorIn \in ReadArmors
  /\ keys = <<>> /\ self = NoMsg /\ readErr = "none" /\ armorOut = NoBody /\ plainText = NoText /\ copyMsg = NoMsg
  /\ InitSign /\ InitVerify /\ InitCodecOff /\ InitEngineOff

NextRead == ReadArmored \/ ArmorCall

SpecRead == InitRead /\ [][NextRead]_vars

\* The text of every message made: by the constructor, by readArmored, by sign.
InitText == InitMsg(Texts, {<<K1>>, <<Klocked>>}, TextArmors, {<<K1>>}) /\ InitSign /\ InitVerify /\ InitCodecOff /\ InitEngineOff

NextText == New \/ ReadArmored \/ SignStep \/ GetTextAndNew

SpecText == InitText /\ [][NextText]_vars

\* The signing flows: construct or read, then sign with keys of every kind.
InitSigning ==
  InitMsg(FlowTexts, SignKeyLists, FlowArmors, SignKeyLists)
    /\ InitSign /\ InitVerify /\ InitCodecOff /\ InitEngineOff

NextSigning == New \/ ReadArmored \/ SignStep

SpecSigning == InitSigning /\ [][NextSigning]_vars

\* The codec on byte arrays.
InitRadix ==
  /\ pc = "readFailed" /\ rawText = <<>> /\ armorIn = NoArmor /\ keys = <<>>
  /\ self = NoMsg /\ readErr = "none" /\ armorOut = NoBody /\ plainText = NoText /\ copyMsg = NoMsg
  /\ InitSign /\ InitVerify /\ InitEngineOff
  /\ codecPc = "encode" /\ codecT \in CodecInputs /\ codecU \in BOOLEAN
  /\ codecR = <<>> /\ codecBack = <<>> /\ codecAlt = <<>> /\ codecAltBack = <<>>

NextRadix == Encode \/ Decode \/ DecodeAltered

SpecRadix == InitRadix /\ [][NextRadix]_vars

\* crypto/signature: sign, then verify.
InitEngine ==
  /\ pc = "readFailed" /\ rawText = <<>> /\ armorIn = NoArmor /\ keys = <<>>
  /\ self = NoMsg /\ readErr = "none" /\ armorOut = NoBody /\ plainText = NoText /\ copyMsg = NoMsg
  /\ InitSign /\ InitVerify /\ InitCodecOff
  /\ engPc = "sign" /\ engAlgo \in Algos /\ engHash \in {2, 8}
  /\ engKey = EngineKeyFor(engAlgo) /\ engData \in EngineData
  /\ engSigned = NoOutcome /\ engMsg = <<>> /\ engVerified = NoOutcome

NextEngine == EngineSign \/ EngineVerify

SpecEngine == InitEngine /\ [][NextEngine]_vars

-----------------------------------------------------------------------------
(* Properties *)

\* readArmored has returned or thrown.
ReadDone == pc \in {"created", "readFailed"} /\ armorIn # NoArmor

\* The positions of the signature packets in a packet list.
SigIdx(data) == {i \in DOMAIN data : data[i].tag = enums_packet_signature}

\* A header line "Hash: <value>" with a value.
IsHashLine(h) == Len(h) >= 4 /\ h[1] = "Hash" /\ h[2] = ":" /\ h[3] = " "

\* The name of a header line: what stands before its first colon.
RECURSIVE HeaderName(_)
HeaderName(h) ==
  IF h = <<>> \/ Head(h) = ":" THEN <<>> ELSE <<Head(h)>> \o HeaderName(Tail(h))

\* The comma-separated names of a Hash line, blanks dropped.
NamesOf(h) == Range(SplitComma(RemoveWhitespace(SubSeq(h, 4, Len(h))), 1, <<>>))

KnownName(n) == Len(n) = 1 /\ ToLowerCase(n[1]) \in DOMAIN enums_hash

\* The hash algorithms the Hash lines of a header list name, case ignored.
Declared(headers) ==
  {enums_hash[ToLowerCase(n[1])] :
     n \in {m \in UNION {NamesOf(headers[k]) : k \in DOMAIN headers} : KnownName(m)}}

AllHashLines(headers) == headers # <<>> /\ \A k \in DOMAIN headers : IsHashLine(headers[k])

AllNamesKnown(headers) == \A k \in DOMAIN headers : \A n \in NamesOf(headers[k]) : KnownName(n)

Covered(headers, data) == \A i \in SigIdx(data) : data[i].hashAlgorithm \in Declared(headers)

\* C1: an armor block with no header line and at least one signature packet is
\* accepted by readArmored exactly when every signature packet uses MD5.
C1_NoHashHeaderMeansMD5 ==
  (ReadDone /\ armorIn.type = enums_armor_signed /\ armorIn.headers = <<>>
     /\ SigIdx(armorIn.data) # {})
    => (pc = "created" <=>
          \A i \in SigIdx(armorIn.data) : armorIn.data[i].hashAlgorithm = enums_hash.md5)

\* C2 as claimed: when every header line is a Hash line, readArmored accepts
\* exactly when every signature's hash algorithm is among the names of the Hash
\* lines, and otherwise throws the header/signature mismatch error.
C2_AcceptIffDeclared ==
  (ReadDone /\ armorIn.type = enums_armor_signed /\ AllHashLines(armorIn.headers))
    => /\ pc = "created" <=> Covered(armorIn.headers, armorIn.data)
       /\ pc = "readFailed" => readErr = ErrMismatch /\ self = NoMsg

\* C2 as amended: the same, for Hash lines that name known hash algorithms only.
C2_AcceptIffDeclaredKnownNames ==
  (ReadDone /\ armorIn.type = enums_armor_signed /\ AllHashLines(armorIn.headers)
     /\ AllNamesKnown(armorIn.headers))
    => /\ pc = "created" <=> Covered(armorIn.headers, armorIn.data)
       /\ pc = "readFailed" => readErr = ErrMismatch /\ self = NoMsg

\* C2 witness: a block with two Hash lines is accepted whose two signatures use
\* different hash algorithms, one of them named by the second line only.
C2_Witness ==
  /\ pc = "created"
  /\ Len(armorIn.headers) = 2 /\ AllHashLines(armorIn.headers) /\ AllNamesKnown(armorIn.headers)
  /\ \E i, j \in SigIdx(armorIn.data) :
       /\ armorIn.data[i].hashAlgorithm # armorIn.data[j].hashAlgorithm
       /\ armorIn.data[j].hashAlgorithm \notin Declared(<<armorIn.headers[1]>>)

\* C3: readArmored fails on every armor block with a header line whose name is
\* not Hash.
C3_OnlyHashHeaders ==
  (ReadDone /\ \E k \in DOMAIN armorIn.headers : HeaderName(armorIn.headers[k]) # <<"Hash">>)
    => pc = "readFailed"

\* C4: the list sign returns has its i-th signature made by the i-th key, and
\* the list verify returns has its i-th entry for the i-th signature, whatever
\* the order in which the per-key and per-signature functions completed.
C4_InputOrder ==
  /\ signPc = "resolved" =>
       /\ Len(signRet.signature) = Len(keys)
       /\ \A i \in DOMAIN keys :
            /\ signRet.signature[i].issuerKeyId = keys[i].signingKeyPacket.keyid
            /\ signRet.signature[i].madeWith = keys[i].signingKeyPacket.material
  /\ verifyPc = "resolved" =>
       /\ Len(verifyRet) = Len(Receiver.signature)
       /\ \A i \in DOMAIN verifyRet :
            /\ verifyRet[i].keyid = Receiver.signature[i].issuerKeyId
            /\ verifyRet[i].signature = <<Receiver.signature[i]>>

\* C4 witness: verify has resolved on a message that sign made with two different
\* keys, and the function of the second signature completed before the first's.
C4_Witness ==
  /\ verifyPc = "resolved" /\ verifyOn = "ret"
  /\ Len(sigOrder) >= 2 /\ sigOrder[1] > sigOrder[2]
  /\ signRet.signature[1].issuerKeyId # signRet.signature[2].issuerKeyId

\* Key k has a signing key packet for issuer key id `id`.
Matches(k, id) == k.signingKeyPacket # NoKeyPacket /\ k.signingKeyPacket.keyid = id

\* C5: in the list verify returns, a signature's validity is null exactly when no
\* supplied key has a signing key packet for the signature's issuer key id, and
\* is true or false otherwise.
C5_NullIffNoKey ==
  verifyPc = "resolved" =>
    \A i \in DOMAIN verifyRet :
      LET matched == \E j \in DOMAIN keys : Matches(keys[j], Receiver.signature[i].issuerKeyId)
      IN  /\ verifyRet[i].valid = "null" <=> ~matched
          /\ matched => verifyRet[i].valid \in {"true", "false"}

\* C5 witness: verify has resolved with a boolean for a signature although the
\* last of the supplied keys has no key packet for its issuer.
C5_Witness ==
  /\ verifyPc = "resolved"
  /\ \E i \in DOMAIN verifyRet :
       /\ verifyRet[i].valid \in {"true", "false"}
       /\ Len(keys) >= 2
       /\ ~Matches(keys[Len(keys)], Receiver.signature[i].issuerKeyId)

\* The signing function of key k throws.
KeyFails(k) ==
  \/ k.isPublic \/ k.signingKeyPacket = NoKeyPacket \/ ~k.signingKeyPacket.isDecrypted
  \/ k.primaryUser = "rejects"

\* C6: when the signing of one of the keys fails, sign never resolves and
\* returns no message; a rejected sign carries the error and no message.
C6_FailFast ==
  /\ (signPc # "idle" /\ \E j \in DOMAIN keys : KeyFails(keys[j]))
       => signPc \in {"pending", "rejected"} /\ signRet = NoMsg
  /\ signPc = "rejected" => signErr # "none" /\ signRet = NoMsg

\* C6 witness: sign has rejected while the function of another key has
\* completed successfully.
C6_Witness ==
  /\ signPc = "rejected"
  /\ \E i \in DOMAIN signTasks : signTasks[i].pc = "fulfilled"

\* C7: from the call of sign on, whether it resolves or rejects, the receiver's
\* text and signature are what they were at the call, and the message a
\* resolved sign returns is another object.
C7_ReceiverUnchanged ==
  /\ signPc # "idle" => self = signThis0
  /\ signPc = "resolved" => signRet # NoMsg /\ signRet.id # self.id

\* C7 witness: sign has resolved with two signatures on a receiver that carried
\* a signature of its own.
C7_Witness ==
  /\ signPc = "resolved"
  /\ Len(self.signature) >= 1
  /\ Len(signRet.signature) >= 2

\* C8: decoding what s2r made of a byte array, with the same alphabet flag,
\* gives the byte array back.
C8_RoundTrip == codecPc = "done" => codecBack = codecT

\* C8 witness: a byte array whose length is not a multiple of 3 and whose
\* standard encoding spans three lines has been encoded and decoded.
C8_Witness ==
  /\ codecPc = "done" /\ ~codecU
  /\ Len(codecT) % 3 = 1
  /\ Cardinality({i \in DOMAIN codecR : codecR[i] = "\n"}) >= 2

\* Every line feed follows a carriage return and every carriage return is
\* followed by a line feed.
Canonical(text) ==
  \A i \in DOMAIN text :
    /\ text[i] = LF => i > 1 /\ text[i - 1] = CR
    /\ text[i] = CR => i < Len(text) /\ text[i + 1] = LF

\* C9: the text of every message, made by the constructor, by readArmored or by
\* sign, is in canonical CRLF form.
C9_CanonicalText == Canonical(self.text) /\ Canonical(signRet.text)

\* C9 witness: readArmored made a message from a text with a bare CR or LF, and
\* sign made another from it.
C9_Witness ==
  /\ signPc = "resolved"
  /\ ~Canonical(armorIn.text)
  /\ \E i \in DOMAIN signRet.text : signRet.text[i] = LF

\* C10 as claimed: the constructor stores "a\r\nb \n c\r" as "a\r\nb\r\n c\r\n".
C10_ExampleWithTrailingCRLF ==
  (pc = "created" /\ rawText = ExampleText)
    => self.text = <<"a", CR, LF, "b", CR, LF, SP, "c", CR, LF>>

\* C10 as amended: the constructor stores "a\r\nb \n c\r" as "a\r\nb\r\n c".
C10_Example ==
  (pc = "created" /\ rawText = ExampleText)
    => self.text = <<"a", CR, LF, "b", CR, LF, SP, "c">>

\* C10 witness: the constructor has been given the example text.
C10_Witness == pc = "created" /\ rawText = ExampleText

\* C11: the Hash header armor emits names the hash algorithm of every signature
\* packet attached to the message.
C11_HashHeaderNamesAll ==
  armorOut # NoBody =>
    \A i \in SigIdx(self.signature) :
      ToUpperCase(enums_read_hash(self.signature[i].hashAlgorithm)) = armorOut.hash

\* The algorithm ids with a signature algorithm: RSA, DSA, ECDSA, EdDSA.
Supported == {1, 2, 3, 17, 19, 22}

VariantOf(algo) ==
  CASE algo \in {1, 2, 3} -> "rsa"
    [] algo = 17          -> "dsa"
    [] algo = 19          -> "ecdsa"
    [] algo = 22          -> "eddsa"

\* An outcome of sign or verify for an algorithm id: for a supported id the code
\* of exactly its variant ran, for any other id an error was thrown, no value
\* was returned and no variant ran.
Dispatched(algo, outcome) ==
  IF algo \in Supported
  THEN outcome.ran = <<VariantOf(algo)>>
  ELSE outcome.threw # "none" /\ outcome.value = <<>> /\ outcome.ran = <<>>

\* C12: sign and verify throw, returning no signature value and no boolean, for
\* Elgamal (16) and for every id outside {1, 2, 3, 17, 19, 22}; for an id of
\* that set exactly one algorithm variant runs.
C12_DispatchOnAlgo ==
  /\ engPc \in {"verify", "done"} => Dispatched(engAlgo, engSigned)
  /\ engPc = "done" => Dispatched(engAlgo, engVerified)

\* C12 witness: sign and verify have both been called with the Elgamal id.
C12_Witness ==
  /\ engPc = "done" /\ engAlgo = 16
  /\ engSigned.threw = ErrElgamalSign /\ engVerified.threw = ErrElgamalVerify

\* A byte array is exactly `count` length-prefixed integers.
IsMPIs(bytes, count) ==
  LET mpis == readMPIs(bytes, 1, count) IN
  /\ \A i \in 1..count : Len(mpis[i].data) = (mpis[i].bits + 7) \div 8
  /\ Flatten([i \in 1..count |-> mpiWrite(mpis[i])]) = bytes

\* C13: for RSA, DSA, ECDSA and EdDSA, what sign returns is the sequence of
\* length-prefixed integers verify takes (one for RSA, two otherwise), and
\* verify on it, with the matching public key, the same hash algorithm and the
\* same data, returns true.
C13_SignVerifyRoundTrip ==
  (engPc = "done" /\ engAlgo \in Supported /\ engMsg = engSigned.value)
    => /\ IsMPIs(engSigned.value, mpiCount(engAlgo))
       /\ engVerified.threw = "none" /\ engVerified.value = TRUE

\* The round trip for the algorithms other than DSA.
RoundTripButDSA == engAlgo # 17 => C13_SignVerifyRoundTrip

\* A changed signature does not verify.
TamperedRejected ==
  (engPc = "done" /\ engAlgo \in Supported /\ engMsg # engSigned.value)
    => engVerified.threw # "none" \/ engVerified.value = FALSE

\* The number of characters other than newlines among the first i of r.
Emitted(r, i) == Cardinality({j \in 1..i : r[j] # "\n"})

\* A newline stands immediately after every 60th emitted character of r.
WrappedAt60(r) ==
  \A i \in DOMAIN r :
    (r[i] # "\n" /\ Emitted(r, i) % LineLength = 0) => (i < Len(r) /\ r[i + 1] = "\n")

\* C14: the standard encoding of an input that encodes to more than 60
\* characters has a newline immediately after every 60th emitted character,
\* padding characters counted, also when that character is the last one; the
\* URL-safe encoding has no newline and no "=".
C14_LineWrapping ==
  codecPc \in {"decode", "done"} =>
    /\ (~codecU /\ Emitted(codecR, Len(codecR)) > LineLength) => WrappedAt60(codecR)
    /\ codecU => \A i \in DOMAIN codecR : codecR[i] \notin {"\n", "="}

\* The wrapping of the encodings that end in a data character.
WrappedWithoutPadding ==
  (codecPc \in {"decode", "done"} /\ ~codecU /\ Len(codecT) % 3 = 0) => WrappedAt60(codecR)

\* The key packet the lookups for issuer key id `id` leave behind when the key
\* functions complete in the order of the key array, from key j on.
RECURSIVE LookupInOrder(_, _, _, _)
LookupInOrder(ks, id, j, cur) ==
  IF j > Len(ks) THEN cur
  ELSE LookupInOrder(ks, id, j + 1, keyLookup(cur, getSigningKeyPacket(ks[j], id)))

\* The validity verify reports for a signature when the key functions complete
\* in the order of the key array.
ValidInOrder(signature, ks, text) ==
  LET kp == LookupInOrder(ks, signature.issuerKeyId, 1, NoKeyPacket) IN
  IF kp = NoKeyPacket THEN "null" ELSE signatureVerify(signature, kp, text)

\* C15: what sign and verify return does not depend on the order in which the
\* per-key functions complete: every signature of a resolved sign is the one
\* made for the key at its position, and every validity of a resolved verify
\* is the one reported when the key lookups complete in the order of the key
\* array, also when several keys match the signature's issuer key id.
C15_OrderIndependent ==
  /\ signPc = "resolved" =>
       signRet.signature = [i \in DOMAIN keys |-> signaturePacket(keys[i], self.text)]
  /\ verifyPc = "resolved" =>
       \A i \in DOMAIN verifyRet :
         verifyRet[i].valid = ValidInOrder(Receiver.signature[i], keys, Receiver.text)

\* The error the signing function of a failing key throws.
KeyError(k) ==
  IF k.isPublic THEN ErrNeedPrivate
  ELSE IF k.primaryUser = "rejects" THEN ErrPrimaryUser
  ELSE IF k.signingKeyPacket = NoKeyPacket THEN ErrNoSigningKey
  ELSE ErrNotDecrypted

\* signaturePacket.sign has been invoked by the function of key i.
SignInvoked(i) == signTasks[i].pc \in {"awaitSign", "fulfilled"}

\* C16: signDetached invokes the signature packet's sign for a key only if the
\* key is not public, has a signing key packet, and that packet is decrypted;
\* the function of a key failing one of these never invokes it and, when it
\* has thrown, has thrown the error of the failed test.
C16_SignOnlyUsableKeys ==
  \A i \in DOMAIN signTasks :
    /\ SignInvoked(i) =>
         /\ ~keys[i].isPublic
         /\ keys[i].signingKeyPacket # NoKeyPacket
         /\ keys[i].signingKeyPacket.isDecrypted
    /\ KeyFails(keys[i]) =>
         /\ signTasks[i].pc \in {"awaitVerifyPrimaryUser", "rejected"}
         /\ signTasks[i].pc = "rejected" => signTasks[i].err = KeyError(keys[i])
    /\ signTasks[i].pc = "rejected" => KeyFails(keys[i])

\* C16 witness: the function of a key that is not decrypted has thrown while
\* the function of another key has invoked the signing.
C16_Witness ==
  \E i, j \in DOMAIN signTasks :
    /\ signTasks[i].pc = "rejected" /\ signTasks[i].err = ErrNotDecrypted
    /\ SignInvoked(j)

\* C17 as claimed: signaturePacket.sign is invoked for a key only if the key's
\* verifyPrimaryUser completed before the signing key packet was looked up and
\* reported success.
C17_RequiresVerifiedPrimaryUser ==
  \A i \in DOMAIN signTasks : SignInvoked(i) => keys[i].primaryUser = "valid"

\* C17 as amended: signaturePacket.sign is invoked for a key only after the
\* key's verifyPrimaryUser has completed without rejecting; when it rejects, the
\* signing of that key is never invoked and sign does not resolve.
C17_AwaitsPrimaryUser ==
  /\ \A i \in DOMAIN signTasks :
       /\ SignInvoked(i) => keys[i].primaryUser # "rejects"
       /\ signTasks[i].pc = "awaitVerifyPrimaryUser" => signValues[i] = NoPacket
  /\ (signPc # "idle" /\ \E i \in DOMAIN keys : keys[i].primaryUser = "rejects")
       => signPc # "resolved" /\ signRet = NoMsg

\* C17 witness: sign has rejected because verifyPrimaryUser of one key rejected,
\* while a key whose verifyPrimaryUser reported an invalid primary user has its
\* signature made.
C17_Witness ==
  /\ signPc = "rejected" /\ signErr = ErrPrimaryUser
  /\ \E i \in DOMAIN signTasks :
       keys[i].primaryUser = "invalid" /\ signTasks[i].pc = "fulfilled"

\* The characters of a string that are in the active alphabet, in order.
AlphabetChars(t, u) == SelectSeq(t, LAMBDA c : inAlphabet(c, u))

\* C18: what r2s returns depends only on the characters of its input that are
\* in the active alphabet: a string that differs from what s2r returned only in
\* characters outside the alphabet decodes to the same bytes, and a string
\* with k alphabet characters decodes to exactly floor(6k / 8) bytes.
C18_DecodeSkipsOthers ==
  codecPc = "altered" =>
    /\ AlphabetChars(codecAlt, codecU) = AlphabetChars(codecR, codecU)
         => codecAltBack = codecBack
    /\ Len(codecAltBack) = (6 * Len(AlphabetChars(codecAlt, codecU))) \div 8
    /\ \A i \in DOMAIN codecAltBack : codecAltBack[i] \in 0..255

\* C18 witness: a string with "=" put into the middle of the encoding of at
\* least three bytes has been decoded.
C18_Witness ==
  /\ codecPc = "altered" /\ ~codecU /\ Len(codecT) >= 3
  /\ Len(codecAlt) = Len(codecR) + 1
  /\ codecAlt[(Len(codecR) \div 2) + 1] = "="

\* C19: the message a resolved sign returns carries one signature per key of
\* the key array, the i-th made with the i-th key, and nothing else: the
\* signatures of the message sign was called on are not among them.
C19_OneSignaturePerKey ==
  signPc = "resolved" =>
    /\ Len(signRet.signature) = Len(keys)
    /\ \A i \in DOMAIN signRet.signature :
         /\ signRet.signature[i].tag = enums_packet_signature
         /\ signRet.signature[i].issuerKeyId = keys[i].signingKeyPacket.keyid
         /\ signRet.signature[i].madeWith = keys[i].signingKeyPacket.material

\* C19 witness: sign has resolved with two different keys on a message that was
\* read with a signature attached which neither key made.
C19_Witness ==
  /\ signPc = "resolved"
  /\ Len(keys) = 2 /\ keys[1] # keys[2]
  /\ Len(self.signature) = 1
  /\ \A i \in DOMAIN keys : self.signature[1].madeWith # keys[i].signingKeyPacket.material

\* C20: normalising the stored text changes nothing, so the message sign
\* returns has the stored text of the message it was called on, and the message
\* constructed from what getText() returned, a text without carriage returns,
\* has the stored text of the message getText() was called on.
C20_NormalizeStable ==
  /\ signPc = "resolved" => signRet.text = self.text
  /\ copyMsg # NoMsg =>
       /\ copyMsg.text = self.text
       /\ \A i \in DOMAIN plainText : plainText[i] # CR

\* C20 witness: sign has resolved on, and getText() has been called on, a
\* message made from a text with a space before a CR LF.
C20_Witness ==
  /\ signPc = "resolved" /\ copyMsg # NoMsg
  /\ \E i \in DOMAIN rawText :
       i + 2 <= Len(rawText) /\ rawText[i] = SP /\ rawText[i + 1] = CR /\ rawText[i + 2] = LF

====
